---------------------------- MODULE Spec2Model ----------------------------
(***************************************************************************)
(* Tire-inventory (LastikEnvanteri) record lifecycle, ownership filtering  *)
(* and purchase stock side effect of the Sipari-Takip application.         *)
(*                                                                         *)
(* Money amounts are integers (a fixed number of minor units); the only    *)
(* arithmetic the code does on them, a quotient rounded to an integer, is  *)
(* invariant under that scaling.  A nullable column holds Null.            *)
(***************************************************************************)
EXTENDS Integers, Sequences, FiniteSets, TLC

VARIABLES
    records,     \* LastikEnvanteri table: sequence of rows, pk = index
    response,    \* outcome of the last request handled
    categories,  \* Category table: sequence of rows
    items,       \* Item table: sequence of rows
    deliveries,  \* Delivery table: sequence of rows
    purchases,   \* Purchase table: sequence of rows
    instance     \* the objects in memory: a LastikEnvanteri instance about to
                 \* be saved or, per request in flight, the objects it holds

recVars   == <<records>>
storeVars == <<categories, items, deliveries, purchases, instance>>
vars      == <<records, response, categories, items, deliveries, purchases,
               instance>>

(***************************************************************************)
(* Bounds of the model.                                                    *)
(***************************************************************************)
MaxRecords == 1     \* LastikEnvanteri rows created
MaxRows == 1        \* rows created in each of the other tables
MaxQuantity == 2    \* largest quantity a request submits
MaxStock == 6       \* largest Item.quantity reached
MaxAdet == 2        \* largest adet handed to a direct save
MaxPrice == 3       \* largest birim_fiyat handed to a direct save
MaxTotal == 10      \* largest toplam_fiyat handed to a direct save
MaxSample == 3      \* rows of a table the report requests are made on

(***************************************************************************)
(* Users and roles.                                                        *)
(***************************************************************************)
Null == "NULL"

\* auth.User rows: one superuser, one Admin-role user who is not a
\* superuser, two ordinary users (operator, manager).
Users == {"root", "ada", "op1", "ex1"}

is_superuser(u) == u = "root"

\* Profile.role
role(u) == CASE u = "root" -> "AD"
             [] u = "ada"  -> "AD"
             [] u = "op1"  -> "OP"
             [] OTHER      -> "EX"

\* Variant of SeesAllRows: the Admin role is not consulted.
SeesAllRows_SuperuserOnly(u) == is_superuser(u)

\* The test every view repeats: is_superuser or profile.role == 'AD'.
SeesAllRows(u) == is_superuser(u) \/ role(u) = "AD"

(***************************************************************************)
(* LastikEnvanteri model.                                                  *)
(***************************************************************************)
DURUM_CHOICES == {"YOLDA", "ISLEM_DEVAM_EDIYOR", "TESLIM_EDILDI",
                  "KONTROL_EDILDI", "IPTAL_EDILDI"}
AMBAR_CHOICES == {"SATIS", "STOK"}
GRUP_CHOICES  == {"BINEK", "TICARI", "AKU", "JANT"}
MEVSIM_CHOICES == {"YAZ", "KIS", "4MEVSIM"}

\* A nullable text column: <<>> is NULL, <<s>> holds the text s (a sequence
\* of one-character strings).
NoText == << >>
Text(s) == << s >>

\* Field defaults of a freshly constructed LastikEnvanteri instance.
\* A calendar date is <<year, month, day>>.  Today is the date of the clock
\* during the requests; auto_now_add stamps it on a new row.
Today == <<2026, 3, 10>>

NewInstance ==
    [ user           |-> Null,
      marka          |-> "",
      grup           |-> "",
      mevsim         |-> "",
      adet           |-> 1,
      birim_fiyat    |-> 0,
      toplam_fiyat   |-> 0,
      durum          |-> "YOLDA",
      ambar          |-> "STOK",
      sms_gonderildi |-> FALSE,
      iptal_sebebi   |-> NoText,
      is_removed     |-> FALSE,
      olusturma_tarihi |-> Today ]

\* Variant of PyRound: the quotient cut down to an integer (floor division)
\* in place of rounding.
PyRound_Floor(n, d) == n \div d

\* Variant of PyRound: a tie goes up (round half up).
PyRound_HalfUp(n, d) ==
    LET q == n \div d
        r == n - q * d
    IN  IF 2 * r < d THEN q ELSE q + 1

\* Python's round() of the Decimal quotient n / d (d > 0): to the nearest
\* integer, a tie going to the even neighbour.
PyRound(n, d) ==
    LET q == n \div d
        r == n - q * d
    IN  IF 2 * r < d THEN q
        ELSE IF 2 * r > d THEN q + 1
        ELSE IF q % 2 = 0 THEN q ELSE q + 1

\* Variant of RecomputesAdet: only the unit price is looked at.
RecomputesAdet_UnitOnly(inst) == inst.birim_fiyat # 0 /\ inst.birim_fiyat > 0

\* The guard of the adet recomputation in LastikEnvanteri.save.
RecomputesAdet(inst) ==
    inst.toplam_fiyat # 0 /\ inst.birim_fiyat # 0 /\ inst.birim_fiyat > 0

\* LastikEnvanteri.save up to the database write: the instance written.
LastikSave(inst) ==
    LET d == IF inst.durum = "" THEN [inst EXCEPT !.durum = "YOLDA"] ELSE inst
    IN  IF RecomputesAdet(d)
        THEN [d EXCEPT !.adet = PyRound(d.toplam_fiyat, d.birim_fiyat)]
        ELSE d

\* The columns declared without null=True reject NULL (IntegrityError).
DbAccepts(inst) == inst.mevsim # Null /\ inst.grup # Null /\ inst.durum # Null


(***************************************************************************)
(* Forms.                                                                  *)
(***************************************************************************)
\* Variant of FormFields: the create form also lists durum.
FormFields_WithDurum == {"marka", "grup", "mevsim", "adet", "birim_fiyat",
                         "toplam_fiyat", "ambar", "durum"}

\* LastikEnvanteriForm.Meta.fields (free-text cari, urun, aciklama1 and the
\* odeme / one_cikar columns are left out of the model).
FormFields == {"marka", "grup", "mevsim", "adet", "birim_fiyat",
               "toplam_fiyat", "ambar"}

\* Variant of UpdateFormFields: the update form does not list durum.
UpdateFormFields_NoDurum == FormFields \cup {"sms_gonderildi"}

\* LastikEnvanteriUpdateForm.Meta.fields
UpdateFormFields == FormFields \cup {"durum", "sms_gonderildi"}

\* LastikEnvanteriAdmin.fieldsets minus readonly_fields
AdminFormFields == {"marka", "grup", "mevsim", "adet", "birim_fiyat",
                    "durum", "ambar", "sms_gonderildi"}

\* Choice validation of the submitted values a form cleans (every modelled
\* field is required: none is declared blank=True).
FieldIsValid(f, v) ==
    CASE f = "grup"   -> v \in GRUP_CHOICES
      [] f = "mevsim" -> v \in MEVSIM_CHOICES
      [] f = "ambar"  -> v \in AMBAR_CHOICES
      [] f = "durum"  -> v \in DURUM_CHOICES
      [] f = "marka"  -> v # ""
      [] OTHER        -> TRUE

FormIsValid(post, fields) == \A f \in fields : FieldIsValid(f, post[f])

\* ModelForm instance construction: only the form's fields are taken from
\* the request; every other attribute of the instance is kept.
ConstructInstance(inst, post, fields) ==
    [f \in DOMAIN inst |-> IF f \in fields THEN post[f] ELSE inst[f]]

\* form_valid of the create and update views: battery and wheel rows get
\* no season.
ClearMevsim(inst) ==
    IF inst.grup \in {"AKU", "JANT"} THEN [inst EXCEPT !.mevsim = Null] ELSE inst

\* Variant of StampUser: the form leaves the owner as the instance has it.
StampUser_Unstamped(inst, formUser) == inst

\* LastikEnvanteriForm.save: the owner is stamped when the view passed a user.
StampUser(inst, formUser) ==
    IF formUser # Null THEN [inst EXCEPT !.user = formUser] ELSE inst

(***************************************************************************)
(* Strings of the cancel request.                                          *)
(***************************************************************************)
IsSpace(c) == c \in {" ", "\t"}

RECURSIVE LStrip(_)
LStrip(s) == IF s = << >> THEN s
             ELSE IF IsSpace(Head(s)) THEN LStrip(Tail(s)) ELSE s

RECURSIVE RStrip(_)
RStrip(s) == IF s = << >> THEN s
             ELSE IF IsSpace(s[Len(s)]) THEN RStrip(SubSeq(s, 1, Len(s) - 1))
             ELSE s

\* str.strip()
Strip(s) == RStrip(LStrip(s))

\* Variant of ReasonAccepted: the length bound off by one (<= 3).
ReasonAccepted_OffByOne(sebep) == ~(sebep = << >> \/ Len(sebep) <= 3)

\* The reason check of lastik_envanteri_cancel on the stripped text.
ReasonAccepted(sebep) == ~(sebep = << >> \/ Len(sebep) < 3)

\* Variant of CancelPermitted: no user check, as in the update and delete
\* views.
CancelPermitted_Unchecked(u, rec) == TRUE

\* The user check of lastik_envanteri_cancel.
CancelPermitted(u, rec) ==
    ~(~is_superuser(u) /\ role(u) # "AD" /\ rec.user # u)

(***************************************************************************)
(* Database access.                                                        *)
(***************************************************************************)
\* LastikEnvanteri.objects (SoftDeletableManager): the rows not removed.
Exists(pk) == pk \in 1..Len(records) /\ ~records[pk].is_removed

\* Variant of SaveRow: the columns are written as the caller set them,
\* without LastikEnvanteri.save (a queryset update).
SaveRow_Unsaved(pk, inst, okResponse) ==
    IF DbAccepts(inst)
    THEN /\ records' = [records EXCEPT ![pk] = inst]
         /\ response' = okResponse
    ELSE /\ response' = "error"
         /\ UNCHANGED records

\* instance.save() of an existing row: LastikEnvanteri.save, then the write.
SaveRow(pk, inst, okResponse) ==
    LET saved == LastikSave(inst)
    IN  IF DbAccepts(saved)
        THEN /\ records' = [records EXCEPT ![pk] = saved]
             /\ response' = okResponse
        ELSE /\ response' = "error"
             /\ UNCHANGED records

\* instance.save() of a new row.
InsertRow(inst) ==
    LET saved == LastikSave(inst)
    IN  IF DbAccepts(saved)
        THEN /\ records' = Append(records, saved)
             /\ response' = "ok"
        ELSE /\ response' = "error"
             /\ UNCHANGED records

Refuse(why) == response' = why /\ UNCHANGED records

(***************************************************************************)
(* Request handlers on LastikEnvanteri.                                    *)
(***************************************************************************)
\* LastikEnvanteriCreateView (POST)
LastikCreate(u, post) ==
    /\ Len(records) < MaxRecords
    /\ UNCHANGED storeVars
    /\ IF ~FormIsValid(post, FormFields) THEN Refuse("invalid")
       ELSE InsertRow(StampUser(
                [ClearMevsim(ConstructInstance(NewInstance, post, FormFields))
                    EXCEPT !.user = u], u))

\* Variant of LastikUpdate: the view passes the requesting user to the form,
\* as the create view does.
LastikUpdate_StampsRequester(u, pk, post) ==
    /\ UNCHANGED storeVars
    /\ IF ~Exists(pk) THEN Refuse("not_found")
       ELSE IF ~FormIsValid(post, UpdateFormFields) THEN Refuse("invalid")
       ELSE SaveRow(pk, StampUser(
                ClearMevsim(ConstructInstance(records[pk], post, UpdateFormFields)),
                u), "ok")

\* LastikEnvanteriUpdateView (POST): the view passes no user to the form.
LastikUpdate(u, pk, post) ==
    /\ UNCHANGED storeVars
    /\ IF ~Exists(pk) THEN Refuse("not_found")
       ELSE IF ~FormIsValid(post, UpdateFormFields) THEN Refuse("invalid")
       ELSE SaveRow(pk, StampUser(
                ClearMevsim(ConstructInstance(records[pk], post, UpdateFormFields)),
                Null), "ok")

\* Variant of LastikDelete: the row is taken out of the table.
LastikDelete_Hard(u, pk) ==
    /\ UNCHANGED storeVars
    /\ IF ~Exists(pk) THEN Refuse("not_found")
       ELSE /\ records' = SubSeq(records, 1, pk - 1)
                              \o SubSeq(records, pk + 1, Len(records))
            /\ response' = "ok"

\* LastikEnvanteriDeleteView (POST): SoftDeletableModel.delete marks the row
\* and saves it.
LastikDelete(u, pk) ==
    /\ UNCHANGED storeVars
    /\ IF ~Exists(pk) THEN Refuse("not_found")
       ELSE SaveRow(pk, [records[pk] EXCEPT !.is_removed = TRUE], "ok")

\* Variant of WhatsappGonder: the message is composed, the row is not marked.
WhatsappGonder_NoMark(u, pk) ==
    /\ UNCHANGED storeVars
    /\ IF ~Exists(pk) THEN Refuse("not_found")
       ELSE response' = "ok" /\ UNCHANGED records

\* whatsapp_gonder
WhatsappGonder(u, pk) ==
    /\ UNCHANGED storeVars
    /\ IF ~Exists(pk) THEN Refuse("not_found")
       ELSE SaveRow(pk, [records[pk] EXCEPT !.sms_gonderildi = TRUE], "ok")

\* Variant of LastikCancel: a row already cancelled is refused.
LastikCancel_OnlyOnce(u, pk, method, reason) ==
    /\ UNCHANGED storeVars
    /\ IF method # "POST" THEN Refuse("bad_method")
       ELSE IF ~Exists(pk) THEN Refuse("not_found")
       ELSE IF ~CancelPermitted(u, records[pk]) THEN Refuse("denied")
       ELSE IF records[pk].durum = "IPTAL_EDILDI" THEN Refuse("invalid")
       ELSE LET iptal_sebebi == Strip(reason)
            IN  IF ~ReasonAccepted(iptal_sebebi) THEN Refuse("invalid")
                ELSE SaveRow(pk, [records[pk] EXCEPT
                                     !.durum = "IPTAL_EDILDI",
                                     !.iptal_sebebi = Text(iptal_sebebi)], "ok")

\* lastik_envanteri_cancel
LastikCancel(u, pk, method, reason) ==
    /\ UNCHANGED storeVars
    /\ IF method # "POST" THEN Refuse("bad_method")
       ELSE IF ~Exists(pk) THEN Refuse("not_found")
       ELSE IF ~CancelPermitted(u, records[pk]) THEN Refuse("denied")
       ELSE LET iptal_sebebi == Strip(reason)
            IN  IF ~ReasonAccepted(iptal_sebebi) THEN Refuse("invalid")
                ELSE SaveRow(pk, [records[pk] EXCEPT
                                     !.durum = "IPTAL_EDILDI",
                                     !.iptal_sebebi = Text(iptal_sebebi)], "ok")

\* LastikEnvanteriAdmin.save_model behind the admin site's change form
\* (pk an existing row) or add form (pk = 0), open to staff only.
AdminSaveModel(u, pk, post) ==
    /\ is_superuser(u)
    /\ UNCHANGED storeVars
    /\ IF pk # 0 /\ ~Exists(pk) THEN Refuse("not_found")
       ELSE IF ~FormIsValid(post, AdminFormFields) THEN Refuse("invalid")
       ELSE LET old == IF pk = 0 THEN NewInstance ELSE records[pk]
                obj == ConstructInstance(old, post, AdminFormFields)
                priced == [obj EXCEPT !.toplam_fiyat = obj.adet * obj.birim_fiyat]
            IN  IF pk = 0
                THEN Len(records) < MaxRecords /\ InsertRow(priced)
                ELSE SaveRow(pk, priced, "ok")

(***************************************************************************)
(* Read views on LastikEnvanteri (sets of primary keys).                   *)
(***************************************************************************)
Pks == 1..Len(records)

\* Variant of LastikEnvanteriListView: cancelled rows are not excluded.
LastikEnvanteriListView_WithCancelled(u) ==
    IF SeesAllRows(u)
    THEN {pk \in Pks : /\ ~records[pk].is_removed
                       /\ records[pk].durum # "KONTROL_EDILDI"}
    ELSE {pk \in Pks : /\ records[pk].user = u
                       /\ ~records[pk].is_removed
                       /\ records[pk].durum # "KONTROL_EDILDI"}

\* LastikEnvanteriListView.get_queryset without GET filters
LastikEnvanteriListView(u) ==
    IF SeesAllRows(u)
    THEN {pk \in Pks : /\ ~records[pk].is_removed
                       /\ records[pk].durum # "KONTROL_EDILDI"
                       /\ records[pk].durum # "IPTAL_EDILDI"}
    ELSE {pk \in Pks : /\ records[pk].user = u
                       /\ ~records[pk].is_removed
                       /\ records[pk].durum # "KONTROL_EDILDI"
                       /\ records[pk].durum # "IPTAL_EDILDI"}

\* KontrolEdildiListView.get_queryset without GET filters
KontrolEdildiListView(u) ==
    IF SeesAllRows(u)
    THEN {pk \in Pks : /\ ~records[pk].is_removed
                       /\ records[pk].durum = "KONTROL_EDILDI"}
    ELSE {pk \in Pks : /\ records[pk].user = u
                       /\ ~records[pk].is_removed
                       /\ records[pk].durum = "KONTROL_EDILDI"}

\* IptalEdilenLastiklerListView.get_queryset
IptalEdilenLastiklerListView(u) ==
    IF SeesAllRows(u)
    THEN {pk \in Pks : /\ ~records[pk].is_removed
                       /\ records[pk].durum = "IPTAL_EDILDI"}
    ELSE {pk \in Pks : /\ records[pk].user = u
                       /\ ~records[pk].is_removed
                       /\ records[pk].durum = "IPTAL_EDILDI"}

\* aggregate(Sum(field))[...] or 0 over the rows rows[pk], pk in S
RECURSIVE SumOf(_, _, _)
SumOf(rows, S, field) ==
    IF S = {} THEN 0
    ELSE LET pk == CHOOSE x \in S : TRUE
         IN  rows[pk][field] + SumOf(rows, S \ {pk}, field)

\* values('durum').annotate(count=Count('id')): the statuses present, each
\* with its number of rows
CountByDurum(rows, S) ==
    [d \in {rows[pk].durum : pk \in S} |->
        Cardinality({pk \in S : rows[pk].durum = d})]

\* Variant of LastikDashboardOver: Cancelled rows are not excluded.
LastikDashboardOver_WithCancelled(rows) ==
    LET all  == 1..Len(rows)
        live == {pk \in all : ~rows[pk].is_removed}
    IN  [ toplam_adet  |-> SumOf(rows, live, "adet"),
          stok_adet    |-> SumOf(rows, {pk \in live : rows[pk].ambar = "STOK"}, "adet"),
          satis_adet   |-> SumOf(rows, {pk \in live : rows[pk].ambar = "SATIS"}, "adet"),
          yolda_siparis |-> Cardinality({pk \in live : rows[pk].durum = "YOLDA"}),
          islem_devam_siparis |->
              Cardinality({pk \in live : rows[pk].durum = "ISLEM_DEVAM_EDIYOR"}),
          toplam_deger |-> SumOf(rows, live, "toplam_fiyat"),
          durum_dagilimi |-> CountByDurum(rows, live) ]

\* The figures lastik_dashboard computes over the rows it is given; the
\* view gives every row of the table, whoever asks.
LastikDashboardOver(rows) ==
    LET all  == 1..Len(rows)
        live == {pk \in all : ~rows[pk].is_removed}
        kept == {pk \in live : rows[pk].durum # "IPTAL_EDILDI"}
    IN  [ toplam_adet  |-> SumOf(rows, kept, "adet"),
          stok_adet    |-> SumOf(rows, {pk \in kept : rows[pk].ambar = "STOK"}, "adet"),
          satis_adet   |-> SumOf(rows, {pk \in kept : rows[pk].ambar = "SATIS"}, "adet"),
          yolda_siparis |-> Cardinality({pk \in live : rows[pk].durum = "YOLDA"}),
          islem_devam_siparis |->
              Cardinality({pk \in live : rows[pk].durum = "ISLEM_DEVAM_EDIYOR"}),
          toplam_deger |-> SumOf(rows, kept, "toplam_fiyat"),
          durum_dagilimi |-> CountByDurum(rows, kept) ]

\* lastik_dashboard as requested by user u
lastik_dashboard(u) == LastikDashboardOver(records)

\* The LastikEnvanteri figures of the main dashboard for user u, every row
\* lying in the selected year.
dashboard(u) ==
    LET kept == IF SeesAllRows(u)
                THEN {pk \in Pks : /\ ~records[pk].is_removed
                                   /\ records[pk].durum # "IPTAL_EDILDI"}
                ELSE {pk \in Pks : /\ records[pk].user = u
                                   /\ ~records[pk].is_removed
                                   /\ records[pk].durum # "IPTAL_EDILDI"}
    IN  [ lastik_count       |-> Cardinality(kept),
          lastik_total_value |-> SumOf(records, kept, "toplam_fiyat"),
          lastik_durum       |-> CountByDurum(records, kept) ]

(***************************************************************************)
(* Main dashboard and reviewed-list figures on LastikEnvanteri.            *)
(***************************************************************************)
\* olusturma_tarihi within [1 January, 31 December] of the year
InYear(row, year) == row.olusturma_tarihi[1] = year

\* dashboard: the lastik_envanteri queryset of user u for the selected year
lastik_envanteri(u, year) ==
    IF SeesAllRows(u)
    THEN {pk \in Pks : /\ ~records[pk].is_removed
                       /\ InYear(records[pk], year)
                       /\ records[pk].durum # "IPTAL_EDILDI"}
    ELSE {pk \in Pks : /\ records[pk].user = u
                       /\ ~records[pk].is_removed
                       /\ InYear(records[pk], year)
                       /\ records[pk].durum # "IPTAL_EDILDI"}

\* Variant of tire_sales_data: rows of every status but Cancelled.
tire_sales_data_AnyStatus(u, year) ==
    {pk \in lastik_envanteri(u, year) : TRUE}

\* dashboard: the tire_sales_data queryset of user u for the selected year
tire_sales_data(u, year) ==
    IF SeesAllRows(u)
    THEN {pk \in Pks : /\ ~records[pk].is_removed
                       /\ records[pk].durum = "KONTROL_EDILDI"
                       /\ InYear(records[pk], year)
                       /\ records[pk].durum # "IPTAL_EDILDI"}
    ELSE {pk \in Pks : /\ records[pk].user = u
                       /\ ~records[pk].is_removed
                       /\ records[pk].durum = "KONTROL_EDILDI"
                       /\ InYear(records[pk], year)
                       /\ records[pk].durum # "IPTAL_EDILDI"}

\* KontrolEdildiListView.get_context_data: its tire_sales_data queryset
kontrol_tire_sales_data ==
    {pk \in Pks : ~records[pk].is_removed /\ records[pk].durum = "KONTROL_EDILDI"}

\* The dictionary key f"{season}_{group}" of a row, as the pair of its parts;
\* an empty or NULL part reads 'Belirtilmemis'.
SeasonGroupKey(row) ==
    << IF row.mevsim \in {"", Null} THEN "Belirtilmemis" ELSE row.mevsim,
       IF row.grup \in {"", Null} THEN "Belirtilmemis" ELSE row.grup >>

\* The dictionary tire_sales_by_season_group the loop over the rows S builds:
\* a key for each pair met, holding the sum of adet of its rows.
tire_sales_by_season_group(S) ==
    [k \in {SeasonGroupKey(records[pk]) : pk \in S} |->
        SumOf(records, {pk \in S : SeasonGroupKey(records[pk]) = k}, "adet")]

\* dict.get(key, 0)
DictGet(dict, key) == IF key \in DOMAIN dict THEN dict[key] ELSE 0

\* The database value of each entry of seasons = ['Yaz', 'Kis', '4 Mevsim']
db_seasons == <<"YAZ", "KIS", "4MEVSIM">>

\* tire_sales_3d_data = [binek_data, ticari_data] over the rows S
tire_sales_3d_data(S) ==
    LET dict == tire_sales_by_season_group(S)
    IN  << [i \in 1..3 |-> DictGet(dict, <<db_seasons[i], "BINEK">>)],
           [i \in 1..3 |-> DictGet(dict, <<db_seasons[i], "TICARI">>)] >>

\* Upper('marka') / str.upper() on the brand texts of the model
Upper(s) ==
    CASE s = "Michelin" -> "MICHELIN"
      [] s = "MICHELIN" -> "MICHELIN"
      [] s = "Pirelli"  -> "PIRELLI"
      [] s = "PIRELLI"  -> "PIRELLI"
      [] s = ""         -> ""

\* dashboard: lastik_marka_counts, values("marka").annotate(Sum("adet")) on
\* the lastik_envanteri queryset: one entry for each stored marka text.
lastik_marka_counts(u, year) ==
    LET S == lastik_envanteri(u, year)
    IN  [m \in {records[pk].marka : pk \in S} |->
            [ marka     |-> m,
              total_adet |-> SumOf(records, {pk \in S : records[pk].marka = m}, "adet") ]]

\* KontrolEdildiListView.get_context_data: marka_dagilimi.  The rows are
\* grouped by values('marka') before marka_upper is annotated, so there is
\* one entry for each stored marka text, shown under its upper-cased text.
kontrol_marka_dagilimi ==
    LET S == {pk \in Pks : ~records[pk].is_removed
                           /\ records[pk].durum = "KONTROL_EDILDI"}
    IN  [m \in {records[pk].marka : pk \in S} |->
            [ marka_upper |-> Upper(m),
              toplam_adet |-> SumOf(records, {pk \in S : records[pk].marka = m}, "adet") ]]

\* lastik_dashboard: marka_dagilimi, grouped by Upper('marka') over
\* LastikEnvanteri.objects (the rows not removed, of any durum); the cut to
\* the ten largest groups keeps every group of the tables modelled.
marka_dagilimi ==
    LET S == {pk \in Pks : ~records[pk].is_removed}
    IN  [m \in {Upper(records[pk].marka) : pk \in S} |->
            LET G == {pk \in S : Upper(records[pk].marka) = m}
            IN  [ marka       |-> m,
                  count       |-> Cardinality(G),
                  toplam_adet |-> SumOf(records, G, "adet") ]]

\* int(text) on a text of decimal digits with surrounding whitespace: <<n>>,
\* and << >> for the ValueError any other text of the model raises.
Digits == <<"0", "1", "2", "3", "4", "5", "6", "7", "8", "9">>

RECURSIVE DigitsValue(_)
DigitsValue(s) ==
    IF s = << >> THEN 0
    ELSE LET c == s[Len(s)]
             v == CHOOSE i \in 0..9 : Digits[i + 1] = c
         IN  10 * DigitsValue(SubSeq(s, 1, Len(s) - 1)) + v

PyInt(s) ==
    LET t == Strip(s)
    IN  IF t = << >> \/ \E i \in 1..Len(t) : \A k \in 1..10 : Digits[k] # t[i]
        THEN << >>
        ELSE << DigitsValue(t) >>

\* dashboard: selected_year from the year parameter q; << >> when int() or
\* datetime(selected_year, 1, 1) raises ValueError.
selected_year(q) ==
    IF q = << >> THEN << Today[1] >>
    ELSE LET n == PyInt(q)
         IN  IF n # << >> /\ n[1] >= 1 /\ n[1] <= 9999 THEN n ELSE << >>

\* The response to a report request: the view, the HTTP status, the user
\* and the template context.
Rendered(view, u, context) ==
    [view |-> view, status |-> 200, user |-> u, context |-> context]

ServerError(view, u) ==
    [view |-> view, status |-> 500, user |-> u, context |-> << >>]

\* GET dashboard/ with the year parameter q
DashboardRequest(u, q) ==
    /\ response' =
         IF selected_year(q) = << >> THEN ServerError("dashboard", u)
         ELSE LET year == selected_year(q)[1]
                  S    == lastik_envanteri(u, year)
              IN  Rendered("dashboard", u,
                    [ selected_year       |-> year,
                      lastik_count        |-> Cardinality(S),
                      lastik_total_value  |-> SumOf(records, S, "toplam_fiyat"),
                      lastik_durum_counts |-> CountByDurum(records, S),
                      lastik_marka_counts |-> lastik_marka_counts(u, year),
                      tire_sales_3d_data  |->
                          tire_sales_3d_data(tire_sales_data(u, year)) ])
    /\ UNCHANGED <<records, storeVars>>

\* GET lastik-dashboard/
LastikDashboardRequest(u) ==
    /\ response' = Rendered("lastik_dashboard", u,
                     [ figures        |-> lastik_dashboard(u),
                       marka_dagilimi |-> marka_dagilimi ])
    /\ UNCHANGED <<records, storeVars>>

\* GET kontrol-edildi/ without GET filters
KontrolEdildiRequest(u) ==
    /\ response' = Rendered("kontrol_edildi", u,
                     [ object_list        |-> KontrolEdildiListView(u),
                       marka_dagilimi     |-> kontrol_marka_dagilimi,
                       tire_sales_3d_data |->
                           tire_sales_3d_data(kontrol_tire_sales_data) ])
    /\ UNCHANGED <<records, storeVars>>

(***************************************************************************)
(* The list views' custom date range (GET tarih_filtresi = custom, the     *)
(* other GET filters absent).                                              *)
(***************************************************************************)
\* The fields of text s between its '-' signs.
RECURSIVE SplitDash(_)
SplitDash(s) ==
    IF \A i \in 1..Len(s) : s[i] # "-" THEN << s >>
    ELSE LET i == CHOOSE k \in 1..Len(s) :
                      s[k] = "-" /\ \A j \in 1..(k - 1) : s[j] # "-"
         IN  << SubSeq(s, 1, i - 1) >> \o SplitDash(SubSeq(s, i + 1, Len(s)))

IsDigits(s) ==
    s # << >> /\ \A i \in 1..Len(s) : \E k \in 1..10 : Digits[k] = s[i]

DaysIn(year, month) ==
    IF month = 2
    THEN IF year % 4 = 0 /\ (year % 100 # 0 \/ year % 400 = 0) THEN 29 ELSE 28
    ELSE IF month \in {4, 6, 9, 11} THEN 30 ELSE 31

\* datetime.strptime(text, '%Y-%m-%d').date(): << date >>, and << >> for
\* the ValueError of a text that does not match the format or names no day
\* of the calendar.
strptime(s) ==
    LET f == SplitDash(s)
    IN  IF \/ Len(f) # 3
           \/ \E i \in 1..Len(f) : ~IsDigits(f[i])
           \/ Len(f[1]) # 4 \/ Len(f[2]) > 2 \/ Len(f[3]) > 2
        THEN << >>
        ELSE LET y == DigitsValue(f[1])
                 m == DigitsValue(f[2])
                 d == DigitsValue(f[3])
             IN  IF y < 1 \/ m \notin 1..12 \/ d < 1 \/ d > DaysIn(y, m)
                 THEN << >>
                 ELSE << <<y, m, d>> >>

DateLE(a, b) ==
    \/ a[1] < b[1]
    \/ a[1] = b[1] /\ a[2] < b[2]
    \/ a[1] = b[1] /\ a[2] = b[2] /\ a[3] <= b[3]

\* get_queryset, tarih_filtresi == 'custom': the rows of S from
\* baslangic_tarihi on and up to bitis_tarihi, a bound being skipped when it
\* is empty or raises ValueError.
custom_date_filter(S, baslangic_tarihi, bitis_tarihi) ==
    LET baslangic_date == strptime(baslangic_tarihi)
        bitis_date     == strptime(bitis_tarihi)
    IN  {pk \in S :
           /\ (baslangic_tarihi # << >> /\ baslangic_date # << >>)
                 => DateLE(baslangic_date[1], records[pk].olusturma_tarihi)
           /\ (bitis_tarihi # << >> /\ bitis_date # << >>)
                 => DateLE(records[pk].olusturma_tarihi, bitis_date[1])}

\* GET of the tire-inventory list with a custom date range.
LastikListRequest(u, baslangic_tarihi, bitis_tarihi) ==
    /\ response' = Rendered("lastik_list", u,
                     [ object_list |->
                         custom_date_filter(LastikEnvanteriListView(u),
                                            baslangic_tarihi, bitis_tarihi) ])
    /\ UNCHANGED <<records, storeVars>>

\* GET of the reviewed list with a custom date range.
KontrolListRequest(u, baslangic_tarihi, bitis_tarihi) ==
    /\ response' = Rendered("kontrol_edildi", u,
                     [ object_list        |->
                         custom_date_filter(KontrolEdildiListView(u),
                                            baslangic_tarihi, bitis_tarihi),
                       marka_dagilimi     |-> kontrol_marka_dagilimi,
                       tire_sales_3d_data |->
                           tire_sales_3d_data(kontrol_tire_sales_data) ])
    /\ UNCHANGED <<records, storeVars>>

(***************************************************************************)
(* Catalog, deliveries and purchases.  A hard-deleted row keeps its place  *)
(* in the table's sequence, marked deleted: primary keys are not reused.   *)
(***************************************************************************)
NoItem == 0

NewCategory == [user |-> Null, deleted |-> FALSE]
NewItem     == [user |-> Null, category |-> 0, quantity |-> 0, deleted |-> FALSE]
NewDelivery == [user |-> Null, is_delivered |-> FALSE, deleted |-> FALSE]
NewPurchase == [item |-> NoItem, quantity |-> 0, price |-> 0, total_value |-> 0,
                deleted |-> FALSE]

\* CategoryForm.Meta.fields is ['name'], ItemForm.Meta.fields and
\* DeliveryForm.Meta.fields restricted to the modelled columns.
CategoryFormFields == {}
ItemFormFields     == {"category", "quantity"}
DeliveryFormFields == {"is_delivered"}
\* ModelAdmin without fields/fieldsets: every editable column.
DeliveryAdminFields == {"user", "is_delivered"}
PurchaseAdminFields == {"item", "quantity", "price"}

CategoryExists(pk) == pk \in 1..Len(categories) /\ ~categories[pk].deleted
ItemExists(pk)     == pk \in 1..Len(items) /\ ~items[pk].deleted
DeliveryExists(pk) == pk \in 1..Len(deliveries) /\ ~deliveries[pk].deleted
PurchaseExists(pk) == pk \in 1..Len(purchases) /\ ~purchases[pk].deleted

\* ItemForm.__init__: with a user the category choices are that user's.
ItemFormIsValid(post, formUser) ==
    /\ CategoryExists(post.category)
    /\ formUser # Null => categories[post.category].user = formUser

\* test_func of ProductUpdateView, ProductDeleteView, DeliveryDeleteView
test_func(u) == IF is_superuser(u) THEN TRUE ELSE FALSE

\* on_delete=CASCADE from Item to Purchase
CascadeItems(gone) ==
    [pk \in 1..Len(purchases) |->
        IF purchases[pk].item \in gone
        THEN [purchases[pk] EXCEPT !.deleted = TRUE] ELSE purchases[pk]]

\* CategoryCreateView
CategoryCreate(u, post) ==
    /\ Len(categories) < MaxRows
    /\ categories' = Append(categories,
           StampUser(ConstructInstance(NewCategory, post, CategoryFormFields), u))
    /\ response' = "ok"
    /\ UNCHANGED <<records, instance, items, deliveries, purchases>>

\* CategoryDeleteView: open to every logged-in user; items of the category
\* and their purchases go with it.
CategoryDelete(u, pk) ==
    /\ IF ~CategoryExists(pk)
       THEN response' = "not_found" /\ UNCHANGED <<categories, items, purchases>>
       ELSE LET gone == {i \in 1..Len(items) : items[i].category = pk}
            IN  /\ categories' = [categories EXCEPT ![pk].deleted = TRUE]
                /\ items' = [i \in 1..Len(items) |->
                               IF i \in gone THEN [items[i] EXCEPT !.deleted = TRUE]
                               ELSE items[i]]
                /\ purchases' = CascadeItems(gone)
                /\ response' = "ok"
    /\ UNCHANGED <<records, instance, deliveries>>

\* ProductCreateView
ProductCreate(u, post) ==
    /\ Len(items) < MaxRows
    /\ IF ~ItemFormIsValid(post, u)
       THEN response' = "invalid" /\ UNCHANGED items
       ELSE /\ items' = Append(items,
                   StampUser(ConstructInstance(NewItem, post, ItemFormFields), u))
            /\ response' = "ok"
    /\ UNCHANGED <<records, instance, categories, deliveries, purchases>>

\* ProductUpdateView: the view passes no user to the form.
ProductUpdate(u, pk, post) ==
    /\ IF ~test_func(u) THEN response' = "denied" /\ UNCHANGED items
       ELSE IF ~ItemExists(pk) THEN response' = "not_found" /\ UNCHANGED items
       ELSE IF ~ItemFormIsValid(post, Null)
       THEN response' = "invalid" /\ UNCHANGED items
       ELSE /\ items' = [items EXCEPT ![pk] =
                   StampUser(ConstructInstance(items[pk], post, ItemFormFields), Null)]
            /\ response' = "ok"
    /\ UNCHANGED <<records, instance, categories, deliveries, purchases>>

\* ProductDeleteView
ProductDelete(u, pk) ==
    /\ IF ~test_func(u)
       THEN response' = "denied" /\ UNCHANGED <<items, purchases>>
       ELSE IF ~ItemExists(pk)
       THEN response' = "not_found" /\ UNCHANGED <<items, purchases>>
       ELSE /\ items' = [items EXCEPT ![pk].deleted = TRUE]
            /\ purchases' = CascadeItems({pk})
            /\ response' = "ok"
    /\ UNCHANGED <<records, instance, categories, deliveries>>

\* DeliveryCreateView: nothing stamps the owner.
DeliveryCreate(u, post) ==
    /\ Len(deliveries) < MaxRows
    /\ deliveries' = Append(deliveries,
           ConstructInstance(NewDelivery, post, DeliveryFormFields))
    /\ response' = "ok"
    /\ UNCHANGED <<records, instance, categories, items, purchases>>

\* DeliveryUpdateView
DeliveryUpdate(u, pk, post) ==
    /\ IF ~DeliveryExists(pk) THEN response' = "not_found" /\ UNCHANGED deliveries
       ELSE /\ deliveries' = [deliveries EXCEPT ![pk] =
                   ConstructInstance(deliveries[pk], post, DeliveryFormFields)]
            /\ response' = "ok"
    /\ UNCHANGED <<records, instance, categories, items, purchases>>

\* DeliveryDeleteView
DeliveryDelete(u, pk) ==
    /\ IF ~test_func(u) THEN response' = "denied" /\ UNCHANGED deliveries
       ELSE IF ~DeliveryExists(pk)
       THEN response' = "not_found" /\ UNCHANGED deliveries
       ELSE /\ deliveries' = [deliveries EXCEPT ![pk].deleted = TRUE]
            /\ response' = "ok"
    /\ UNCHANGED <<records, instance, categories, items, purchases>>

\* DeliveryAdmin add form (pk = 0) or change form, open to staff only.
DeliveryAdminSave(u, pk, post) ==
    /\ is_superuser(u)
    /\ IF pk = 0
       THEN /\ Len(deliveries) < MaxRows
            /\ deliveries' = Append(deliveries,
                   ConstructInstance(NewDelivery, post, DeliveryAdminFields))
            /\ response' = "ok"
       ELSE IF ~DeliveryExists(pk)
       THEN response' = "not_found" /\ UNCHANGED deliveries
       ELSE /\ deliveries' = [deliveries EXCEPT ![pk] =
                   ConstructInstance(deliveries[pk], post, DeliveryAdminFields)]
            /\ response' = "ok"
    /\ UNCHANGED <<records, instance, categories, items, purchases>>

\* Variant of PurchaseSave: the stock is raised only when the row is new.
PurchaseSave_OnCreateOnly(pk, obj) ==
    LET valued == [obj EXCEPT !.total_value = obj.price * obj.quantity]
    IN  /\ purchases' = IF pk = 0 THEN Append(purchases, valued)
                        ELSE [purchases EXCEPT ![pk] = valued]
        /\ items' = IF valued.item # NoItem /\ pk = 0
                    THEN [items EXCEPT ![valued.item].quantity = @ + valued.quantity]
                    ELSE items

\* Purchase.save of the instance obj, a new row (pk = 0) or row pk.
PurchaseSave(pk, obj) ==
    LET valued == [obj EXCEPT !.total_value = obj.price * obj.quantity]
    IN  /\ purchases' = IF pk = 0 THEN Append(purchases, valued)
                        ELSE [purchases EXCEPT ![pk] = valued]
        /\ items' = IF valued.item # NoItem
                    THEN [items EXCEPT ![valued.item].quantity = @ + valued.quantity]
                    ELSE items

\* PurchaseAdmin.save_model behind the admin site's add form (pk = 0) or
\* change form, open to staff only.
PurchaseAdminSave(u, pk, post) ==
    /\ is_superuser(u)
    /\ UNCHANGED <<records, instance, categories, deliveries>>
    /\ IF pk # 0 /\ ~PurchaseExists(pk)
       THEN response' = "not_found" /\ UNCHANGED <<items, purchases>>
       ELSE IF ~(post.item = NoItem \/ ItemExists(post.item)) \/ post.quantity < 0
       THEN response' = "invalid" /\ UNCHANGED <<items, purchases>>
       ELSE LET old == IF pk = 0 THEN NewPurchase ELSE purchases[pk]
                obj == ConstructInstance(old, post, PurchaseAdminFields)
            IN  /\ pk = 0 => Len(purchases) < MaxRows
                /\ obj.item # NoItem =>
                       items[obj.item].quantity + obj.quantity <= MaxStock
                /\ PurchaseSave(pk, obj)
                /\ response' = "ok"

\* ProductListView.get_queryset
ProductListView(u) ==
    IF SeesAllRows(u) THEN {pk \in 1..Len(items) : ~items[pk].deleted}
    ELSE {pk \in 1..Len(items) : ~items[pk].deleted /\ items[pk].user = u}

\* CategoryListView.get_queryset
CategoryListView(u) ==
    IF SeesAllRows(u) THEN {pk \in 1..Len(categories) : ~categories[pk].deleted}
    ELSE {pk \in 1..Len(categories) :
             ~categories[pk].deleted /\ categories[pk].user = u}

\* DeliveryListView: the table of the model, no get_queryset of its own.
DeliveryListView(u) == {pk \in 1..Len(deliveries) : ~deliveries[pk].deleted}

(***************************************************************************)
(* Requests in flight at the same time.  Each is served by a worker of its *)
(* own; instance[w] holds the place worker w has reached (pc) and the      *)
(* objects it has in memory.  The views and Purchase.save open no          *)
(* transaction and take no lock, so the database statements of two workers *)
(* interleave freely.                                                      *)
(***************************************************************************)
Workers == {"w1", "w2"}

\* Purchase.save, super().save(): the Purchase row of worker w is inserted
\* with its total_value.
PurchaseSaveInsert(w) ==
    /\ instance[w].pc = "insert"
    /\ purchases' = Append(purchases,
           [instance[w].obj EXCEPT
               !.total_value = instance[w].obj.price * instance[w].obj.quantity])
    /\ instance' = [instance EXCEPT ![w].pc = "load"]
    /\ UNCHANGED <<records, response, categories, items, deliveries>>

\* Purchase.save, 'if self.item:': the Item row is read into memory.
PurchaseSaveLoadItem(w) ==
    /\ instance[w].pc = "load"
    /\ instance' =
          IF instance[w].obj.item = NoItem
          THEN [instance EXCEPT ![w].pc = "done"]
          ELSE [instance EXCEPT ![w].pc = "write",
                                ![w].item = items[instance[w].obj.item]]
    /\ UNCHANGED <<records, response, categories, items, deliveries, purchases>>

\* Purchase.save, 'self.item.quantity += self.quantity; self.item.save()':
\* the Item in memory is raised and written back, every column of it.
PurchaseSaveWriteItem(w) ==
    /\ instance[w].pc = "write"
    /\ items' = [items EXCEPT ![instance[w].obj.item] =
                    [instance[w].item EXCEPT
                        !.quantity = @ + instance[w].obj.quantity]]
    /\ instance' = [instance EXCEPT ![w].pc = "done"]
    /\ UNCHANGED <<records, response, categories, deliveries, purchases>>

\* whatsapp_gonder, LastikEnvanteri.objects.get: the row is read into memory.
WhatsappLoad(w) ==
    /\ instance[w].view = "whatsapp"
    /\ instance[w].pc = "load"
    /\ IF ~Exists(instance[w].pk)
       THEN /\ instance' = [instance EXCEPT ![w].pc = "done",
                                            ![w].result = "not_found"]
            /\ response' = "not_found"
       ELSE /\ instance' = [instance EXCEPT ![w].pc = "save",
                                            ![w].obj = records[instance[w].pk]]
            /\ UNCHANGED response
    /\ UNCHANGED <<records, categories, items, deliveries, purchases>>

\* whatsapp_gonder, 'lastik.sms_gonderildi = True; lastik.save()': the row in
\* memory is marked and written back, every column of it.
WhatsappSave(w) ==
    /\ instance[w].view = "whatsapp"
    /\ instance[w].pc = "save"
    /\ SaveRow(instance[w].pk,
               [instance[w].obj EXCEPT !.sms_gonderildi = TRUE], "ok")
    /\ instance' = [instance EXCEPT ![w].pc = "done", ![w].result = response']
    /\ UNCHANGED <<categories, items, deliveries, purchases>>

\* lastik_envanteri_cancel (POST) up to the assignments: the row is read into
\* memory, the user and the reason are checked.
CancelLoad(w) ==
    /\ instance[w].view = "cancel"
    /\ instance[w].pc = "load"
    /\ LET refusal ==
             IF ~Exists(instance[w].pk) THEN "not_found"
             ELSE IF ~CancelPermitted(instance[w].u, records[instance[w].pk])
             THEN "denied"
             ELSE IF ~ReasonAccepted(Strip(instance[w].reason)) THEN "invalid"
             ELSE ""
       IN  IF refusal # ""
           THEN /\ instance' = [instance EXCEPT ![w].pc = "done",
                                                ![w].result = refusal]
                /\ response' = refusal
           ELSE /\ instance' = [instance EXCEPT
                                   ![w].pc = "save",
                                   ![w].obj = records[instance[w].pk]]
                /\ UNCHANGED response
    /\ UNCHANGED <<records, categories, items, deliveries, purchases>>

\* lastik_envanteri_cancel, 'lastik.durum = ...; lastik.iptal_sebebi = ...;
\* lastik.save()': the row in memory is cancelled and written back, every
\* column of it.
CancelSave(w) ==
    /\ instance[w].view = "cancel"
    /\ instance[w].pc = "save"
    /\ SaveRow(instance[w].pk,
               [instance[w].obj EXCEPT
                   !.durum = "IPTAL_EDILDI",
                   !.iptal_sebebi = Text(Strip(instance[w].reason))], "ok")
    /\ instance' = [instance EXCEPT ![w].pc = "done", ![w].result = response']
    /\ UNCHANGED <<categories, items, deliveries, purchases>>

(***************************************************************************)
(* Requests the model submits.                                             *)
(***************************************************************************)
SamplePost ==
    [ marka          |-> "Michelin",
      grup           |-> "BINEK",
      mevsim         |-> "YAZ",
      adet           |-> 7,
      birim_fiyat    |-> 2,
      toplam_fiyat   |-> 5,
      ambar          |-> "STOK",
      durum          |-> "YOLDA",
      sms_gonderildi |-> FALSE,
      user           |-> "ex1",
      iptal_sebebi   |-> Text(<<"x">>),
      is_removed     |-> TRUE ]

\* Bodies of the create, update and admin requests: valid and invalid
\* choices, and keys the form at hand does not list.
Posts ==
    { [SamplePost EXCEPT !.grup = g, !.durum = d, !.sms_gonderildi = b] :
        g \in {"BINEK", "AKU"}, d \in DURUM_CHOICES \cup {""}, b \in BOOLEAN }

\* iptal_sebebi values of the cancel request ('' when the key is absent)
Reasons ==
    { << >>,
      <<" ", " ", " ">>,
      <<"a", "b">>,
      <<" ", "a", "b">>,
      <<" ", "a", "b", " ">>,
      <<"a", "b", "c">>,
      <<"a", " ", "c">>,
      <<" ", "a", "b", "c">>,
      <<"a", "b", "c", "\t">> }

Methods == {"GET", "POST"}

\* Instances handed to LastikEnvanteri.save directly.
SaveInputs ==
    { [NewInstance EXCEPT !.marka = "Michelin", !.grup = "BINEK", !.mevsim = "YAZ",
                          !.adet = a, !.birim_fiyat = b, !.toplam_fiyat = t,
                          !.durum = d] :
        a \in 0..MaxAdet, b \in (-1)..MaxPrice, t \in (-MaxPrice)..MaxTotal,
        d \in {"", "YOLDA", "TESLIM_EDILDI"} }

StorePosts ==
    [ category : 1..MaxRows, quantity : 0..MaxQuantity, is_delivered : BOOLEAN,
      user : {"op1", "ex1"} ]

\* The posts of StorePosts that choose the first category and differ in the
\* quantity.
StockPosts ==
    {post \in StorePosts :
        ~post.is_delivered /\ post.user = "op1" /\ post.category = 1}

PurchasePosts ==
    [ item : {NoItem} \cup 1..MaxRows, quantity : 0..MaxQuantity, price : {2, 3} ]

\* A reviewed row of user op1, and the rows that differ from it in the
\* columns the reports group or filter by.
SampleRow ==
    [NewInstance EXCEPT !.user = "op1", !.marka = "Michelin", !.grup = "BINEK",
                        !.mevsim = "YAZ", !.adet = 3, !.toplam_fiyat = 5,
                        !.durum = "KONTROL_EDILDI"]

SampleRows ==
    { SampleRow,
      [SampleRow EXCEPT !.grup = "TICARI", !.adet = 2],
      [SampleRow EXCEPT !.mevsim = "KIS", !.marka = "MICHELIN", !.adet = 1],
      [SampleRow EXCEPT !.mevsim = "4MEVSIM", !.grup = "TICARI", !.adet = 1],
      [SampleRow EXCEPT !.durum = "YOLDA"],
      [SampleRow EXCEPT !.durum = "IPTAL_EDILDI", !.marka = "MICHELIN",
                        !.iptal_sebebi = Text(<<"a", "b", "c">>)],
      [SampleRow EXCEPT !.is_removed = TRUE],
      [SampleRow EXCEPT !.grup = "AKU"],
      [SampleRow EXCEPT !.user = "ex1", !.ambar = "SATIS"],
      [SampleRow EXCEPT !.olusturma_tarihi = <<2025, 12, 31>>],
      [SampleRow EXCEPT !.user = Null, !.marka = "Pirelli", !.adet = 2] }

\* The tables of at most MaxSample rows.
Tables == UNION {[1..n -> SampleRows] : n \in 0..MaxSample}

\* The year parameter of the dashboard request ('' when the key is absent).
YearQueries ==
    { << >>, <<"2", "0", "2", "5">>, <<"2", "0", "2", "6">>,
      <<"2", "0", "2", "6", " ">>, <<"2", "0", "x">>, <<"0">> }

\* Rows en route and reviewed rows, created today and on the last day of the
\* year before, and the tables of at most MaxSample of them.
DatedRows ==
    { SampleRow,
      [SampleRow EXCEPT !.olusturma_tarihi = <<2025, 12, 31>>],
      [SampleRow EXCEPT !.durum = "YOLDA"],
      [SampleRow EXCEPT !.durum = "YOLDA",
                        !.olusturma_tarihi = <<2025, 12, 31>>],
      [SampleRow EXCEPT !.durum = "YOLDA", !.user = "ex1"] }

DatedTables == UNION {[1..n -> DatedRows] : n \in 0..MaxSample}

\* The baslangic_tarihi and bitis_tarihi parameters of a list request ('' when
\* the key is absent): two days, a day no month has, and a text in another
\* format.
DateQueries ==
    { << >>,
      <<"2", "0", "2", "6", "-", "0", "1", "-", "0", "1">>,
      <<"2", "0", "2", "5", "-", "1", "2", "-", "3", "1">>,
      <<"2", "0", "2", "6", "-", "0", "2", "-", "3", "0">>,
      <<"0", "1", ".", "0", "1", ".", "2", "0", "2", "6">> }

\* A worker about to save a Purchase of the first Item.
RacingPurchases ==
    { [ pc   |-> "insert",
        obj  |-> [NewPurchase EXCEPT !.item = 1, !.quantity = q, !.price = p],
        item |-> << >> ] : q \in 1..MaxQuantity, p \in {2, 3} }

\* The row two requests race for: a row of user op1 in one of the durum
\* values a cancel can start from, notified or not.
RacedRows ==
    { [SampleRow EXCEPT !.durum = d, !.sms_gonderildi = b] :
        d \in DURUM_CHOICES \ {"IPTAL_EDILDI"}, b \in BOOLEAN }

\* A worker about to serve a notification request for row 1.
RacingNotifications ==
    { [ view |-> "whatsapp", pc |-> "load", pk |-> 1, u |-> u,
        reason |-> << >>, obj |-> << >>, result |-> "" ] :
        u \in {"op1", "ex1"} }

\* A worker about to serve a cancel request (POST) for row 1.
RacingCancels ==
    { [ view |-> "cancel", pc |-> "load", pk |-> 1, u |-> u,
        reason |-> r, obj |-> << >>, result |-> "" ] :
        u \in {"ada", "op1", "ex1"},
        r \in {<<"a", "b">>, <<"a", "b", "c">>, <<" ", "a", "b", "c">>} }

(***************************************************************************)
(* Specifications.                                                         *)
(***************************************************************************)
Init ==
    /\ records = << >>
    /\ response = "none"
    /\ categories = << >>
    /\ items = << >>
    /\ deliveries = << >>
    /\ purchases = << >>
    /\ instance = NewInstance

\* The tire-inventory requests.
Next ==
    \/ \E u \in Users, post \in Posts : LastikCreate(u, post)
    \/ \E u \in Users, pk \in 1..MaxRecords, post \in Posts :
           LastikUpdate(u, pk, post)
    \/ \E u \in Users, pk \in 1..MaxRecords : LastikDelete(u, pk)
    \/ \E u \in Users, pk \in 1..MaxRecords : WhatsappGonder(u, pk)
    \/ \E u \in Users, pk \in 1..MaxRecords, m \in Methods, reason \in Reasons :
           LastikCancel(u, pk, m, reason)
    \/ \E u \in Users, pk \in 0..MaxRecords, post \in Posts :
           AdminSaveModel(u, pk, post)

Spec == Init /\ [][Next]_vars

\* The catalog and delivery requests, beside tire-inventory creation.
StoreNext ==
    \/ \E u \in Users : LastikCreate(u, SamplePost)
    \/ \E u \in Users, post \in StorePosts : CategoryCreate(u, post)
    \/ \E u \in Users, pk \in 1..MaxRows : CategoryDelete(u, pk)
    \/ \E u \in Users, post \in StorePosts : ProductCreate(u, post)
    \/ \E u \in Users, pk \in 1..MaxRows, post \in StorePosts :
           ProductUpdate(u, pk, post)
    \/ \E u \in Users, pk \in 1..MaxRows : ProductDelete(u, pk)
    \/ \E u \in Users, post \in StorePosts : DeliveryCreate(u, post)
    \/ \E u \in Users, pk \in 1..MaxRows, post \in StorePosts :
           DeliveryUpdate(u, pk, post)
    \/ \E u \in Users, pk \in 1..MaxRows : DeliveryDelete(u, pk)
    \/ \E u \in Users, pk \in 0..MaxRows, post \in StorePosts :
           DeliveryAdminSave(u, pk, post)

SpecStore == Init /\ [][StoreNext]_vars

\* Purchases against the catalog of one user.
PurchaseNext ==
    \/ \E post \in StockPosts : CategoryCreate("op1", post)
    \/ \E post \in StockPosts : ProductCreate("op1", post)
    \/ \E u \in Users, pk \in 0..MaxRows, post \in PurchasePosts :
           PurchaseAdminSave(u, pk, post)

SpecPurchase == Init /\ [][PurchaseNext]_vars

\* LastikEnvanteri.save called on an instance built in memory.
ModelSave ==
    /\ records = << >>
    /\ InsertRow(instance)
    /\ UNCHANGED storeVars

SaveInit ==
    /\ records = << >>
    /\ response = "none"
    /\ categories = << >>
    /\ items = << >>
    /\ deliveries = << >>
    /\ purchases = << >>
    /\ instance \in SaveInputs

\* The two ways a new row is written: a direct save, the create form.
SaveNext ==
    \/ ModelSave
    \/ \E u \in Users, post \in Posts : LastikCreate(u, post)

SpecSave == SaveInit /\ [][SaveNext]_vars

\* Report requests on a table of rows.
TableInit ==
    /\ records \in Tables
    /\ response = ServerError("none", Null)
    /\ categories = << >>
    /\ items = << >>
    /\ deliveries = << >>
    /\ purchases = << >>
    /\ instance = NewInstance

TableNext ==
    \/ \E u \in Users, q \in YearQueries : DashboardRequest(u, q)
    \/ \E u \in Users : LastikDashboardRequest(u)
    \/ \E u \in Users : KontrolEdildiRequest(u)

SpecTable == TableInit /\ [][TableNext]_vars

\* Requests with optional query filters on a table of dated rows.
FilterInit ==
    /\ records \in DatedTables
    /\ response = ServerError("none", Null)
    /\ categories = << >>
    /\ items = << >>
    /\ deliveries = << >>
    /\ purchases = << >>
    /\ instance = NewInstance

FilterNext ==
    \/ \E u \in Users, q \in YearQueries : DashboardRequest(u, q)
    \/ \E u \in Users, b \in DateQueries, e \in DateQueries :
          LastikListRequest(u, b, e)
    \/ \E u \in Users, b \in DateQueries, e \in DateQueries :
          KontrolListRequest(u, b, e)

SpecFilter == FilterInit /\ [][FilterNext]_vars

\* Two Purchases of the same Item saved at the same time.  The Item is new
\* (quantity 0, the column's default).
PurchaseRaceInit ==
    /\ records = << >>
    /\ response = "none"
    /\ categories = << [NewCategory EXCEPT !.user = "op1"] >>
    /\ items = << [NewItem EXCEPT !.user = "op1", !.category = 1] >>
    /\ deliveries = << >>
    /\ purchases = << >>
    /\ instance \in [Workers -> RacingPurchases]

PurchaseRaceNext ==
    \/ \E w \in Workers : PurchaseSaveInsert(w)
    \/ \E w \in Workers : PurchaseSaveLoadItem(w)
    \/ \E w \in Workers : PurchaseSaveWriteItem(w)

SpecPurchaseRace == PurchaseRaceInit /\ [][PurchaseRaceNext]_vars

\* A notification request and a cancel of the same row at the same time.
NotifyRaceInit ==
    /\ records \in {<< row >> : row \in RacedRows}
    /\ response = "none"
    /\ categories = << >>
    /\ items = << >>
    /\ deliveries = << >>
    /\ purchases = << >>
    /\ instance \in {[w \in Workers |-> IF w = "w1" THEN n ELSE c] :
                        n \in RacingNotifications, c \in RacingCancels}

NotifyRaceNext ==
    \/ \E w \in Workers : WhatsappLoad(w)
    \/ \E w \in Workers : WhatsappSave(w)
    \/ \E w \in Workers : CancelLoad(w)
    \/ \E w \in Workers : CancelSave(w)

SpecNotifyRace == NotifyRaceInit /\ [][NotifyRaceNext]_vars

(***************************************************************************)
(* Properties.                                                             *)
(***************************************************************************)
Abs(x) == IF x < 0 THEN -x ELSE x

\* The user is neither superuser nor Admin-role.
Ordinary(u) == ~is_superuser(u) /\ role(u) # "AD"

\* The rows of the LastikEnvanteri table owned by u, as a table.
OwnRows(u) == SelectSeq(records, LAMBDA r : r.user = u)

\* C1: for a user who is neither superuser nor Admin-role, no list view
\* (tire inventory: active, reviewed, cancelled; items; categories;
\* deliveries) contains a row owned by another user.
C1_ListsShowOnlyOwnRows ==
    \A u \in Users : Ordinary(u) =>
        /\ \A pk \in LastikEnvanteriListView(u) \cup KontrolEdildiListView(u)
                     \cup IptalEdilenLastiklerListView(u) :
               records[pk].user \notin Users \ {u}
        /\ \A pk \in ProductListView(u) : items[pk].user \notin Users \ {u}
        /\ \A pk \in CategoryListView(u) : categories[pk].user \notin Users \ {u}
        /\ \A pk \in DeliveryListView(u) : deliveries[pk].user \notin Users \ {u}

\* C2: a cancel request by a user who is neither superuser, nor Admin-role,
\* nor the owner of the record fails and leaves the table unchanged,
\* whatever the method and the reason.
C2_ForeignCancelRefused ==
    [][ \A u \in Users, pk \in 1..MaxRecords, m \in Methods, reason \in Reasons :
          ( /\ pk \in Pks
            /\ Ordinary(u)
            /\ records[pk].user # u
            /\ LastikCancel(u, pk, m, reason) )
          => (response' # "ok" /\ records' = records) ]_vars

\* C2 witness: a cancel was refused for lack of permission on a live row.
C2_Witness ==
    /\ response = "denied"
    /\ Len(records) = 1
    /\ records[1].durum # "IPTAL_EDILDI"

\* An authorized cancel request (POST) by u on the existing row pk.
AuthorizedCancel(u, pk, reason) ==
    /\ Exists(pk)
    /\ (is_superuser(u) \/ role(u) = "AD" \/ records[pk].user = u)
    /\ LastikCancel(u, pk, "POST", reason)

\* C3 as stated: an authorized cancel succeeds iff the trimmed reason has at
\* least 3 characters; on success durum is Cancelled and iptal_sebebi is the
\* reason as supplied; on failure the table is unchanged.
C3_ReasonStoredAsSupplied ==
    [][ \A u \in Users, pk \in 1..MaxRecords, reason \in Reasons :
          AuthorizedCancel(u, pk, reason) =>
            /\ (response' = "ok") <=> (Len(Strip(reason)) >= 3)
            /\ response' = "ok" =>
                 /\ records'[pk].durum = "IPTAL_EDILDI"
                 /\ records'[pk].iptal_sebebi = Text(reason)
            /\ response' # "ok" => records' = records ]_vars

\* C3 amended: as C3, the stored iptal_sebebi being the reason with its
\* surrounding whitespace trimmed.
C3_ReasonStoredTrimmed ==
    [][ \A u \in Users, pk \in 1..MaxRecords, reason \in Reasons :
          AuthorizedCancel(u, pk, reason) =>
            /\ (response' = "ok") <=> (Len(Strip(reason)) >= 3)
            /\ response' = "ok" =>
                 /\ records'[pk].durum = "IPTAL_EDILDI"
                 /\ records'[pk].iptal_sebebi = Text(Strip(reason))
            /\ response' # "ok" => records' = records ]_vars

\* C3 witness: a cancel went through and stamped a three-character reason.
C3_Witness ==
    /\ response = "ok"
    /\ Len(records) = 1
    /\ records[1].durum = "IPTAL_EDILDI"
    /\ records[1].iptal_sebebi = Text(<<"a", "b", "c">>)

\* C4: every row with durum Cancelled carries an iptal_sebebi of at least
\* 3 characters.
C4_CancelledHasReason ==
    \A pk \in Pks :
        records[pk].durum = "IPTAL_EDILDI" =>
            /\ records[pk].iptal_sebebi # NoText
            /\ Len(records[pk].iptal_sebebi[1]) >= 3

\* C5: a row whose durum is Cancelled keeps durum Cancelled in every step.
C5_CancelledIsFinal ==
    [][ \A pk \in Pks :
          records[pk].durum = "IPTAL_EDILDI" => records'[pk].durum = "IPTAL_EDILDI"
      ]_vars

\* C6 as stated: after a save of an instance with birim_fiyat > 0 (and any
\* toplam_fiyat), the stored adet is toplam_fiyat / birim_fiyat rounded to
\* a nearest integer.
C6_AdetDerivedWheneverUnitPositive ==
    (records # << >> /\ records[1].user = Null /\ instance.birim_fiyat > 0) =>
        2 * Abs(instance.toplam_fiyat - records[1].adet * instance.birim_fiyat)
            <= instance.birim_fiyat

\* C6 amended: after a save of an instance with toplam_fiyat non-zero and
\* birim_fiyat > 0, the stored adet is toplam_fiyat / birim_fiyat rounded to
\* a nearest integer, whatever adet the caller supplied.
C6_AdetDerivedFromPrices ==
    ( /\ records # << >>
      /\ records[1].user = Null
      /\ instance.toplam_fiyat # 0
      /\ instance.birim_fiyat > 0 ) =>
        2 * Abs(instance.toplam_fiyat - records[1].adet * instance.birim_fiyat)
            <= instance.birim_fiyat

\* C6 witness: unit price 2 and total 10 saved with another adet give adet 5.
C6_Witness ==
    /\ records # << >>
    /\ records[1].user = Null
    /\ instance.birim_fiyat = 2
    /\ instance.toplam_fiyat = 10
    /\ instance.adet # 5
    /\ records[1].adet = 5

\* The row of purchases' a save with primary key pk (0: a new row) wrote.
SavedRow(pk) == IF pk = 0 THEN Len(purchases') ELSE pk

\* The step wrote row SavedRow(pk) of purchases from the submitted values.
WrotePurchase(pk, post) ==
    /\ purchases'[SavedRow(pk)].item = post.item
    /\ purchases'[SavedRow(pk)].quantity = post.quantity
    /\ purchases'[SavedRow(pk)].price = post.price

\* C7: every successful save of a Purchase, of a new row or of an existing
\* one, adds the Purchase's quantity to the linked Item's quantity and
\* changes no other Item; with no linked Item no Item changes.
C7_EverySaveAddsStock ==
    [][ \A u \in Users : (response' = "ok" /\ is_superuser(u)) =>
          \A pk \in 0..MaxRows :
            ( /\ Len(purchases') = Len(purchases) + (IF pk = 0 THEN 1 ELSE 0)
              /\ SavedRow(pk) \in 1..Len(purchases') ) =>
              \A post \in PurchasePosts :
                (WrotePurchase(pk, post) /\ PurchaseAdminSave(u, pk, post)) =>
                  IF post.item # NoItem
                  THEN items' = [items EXCEPT
                                   ![post.item].quantity = @ + post.quantity]
                  ELSE items' = items ]_vars

\* C7 witness: an Item created with quantity 2 at most holds 2 + 2 * 2 after
\* the one Purchase linked to it, of quantity 2, was saved more than once.
C7_Witness ==
    /\ Len(purchases) = 1
    /\ Len(items) = 1
    /\ purchases[1].item = 1
    /\ purchases[1].quantity = 2
    /\ items[1].quantity = 2 + 2 * 2

\* C8: a row the create form has just written has durum YOLDA, whatever the
\* request submitted; a direct save of an instance whose durum is empty
\* stores durum YOLDA.
C8_NewRowIsEnRoute ==
    [][ /\ \A u \in Users, post \in Posts :
             ( /\ response' = "ok"
               /\ Len(records') = Len(records) + 1
               /\ records'[Len(records')].user = u
               /\ LastikCreate(u, post) ) =>
                 records'[Len(records')].durum = "YOLDA"
        /\ (response' = "ok" /\ instance.durum = "" /\ ModelSave) =>
                 records'[1].durum = "YOLDA" ]_vars

\* C8 witness: an instance with empty durum was saved and is stored YOLDA.
C8_Witness ==
    /\ instance.durum = ""
    /\ records # << >>
    /\ records[1].user = Null
    /\ records[1].durum = "YOLDA"

\* C9: the figures of the tire dashboard shown to a user who is neither
\* superuser nor Admin-role are those computed from the rows the user owns.
C9_DashboardFromOwnRows ==
    \A u \in Users : Ordinary(u) =>
        lastik_dashboard(u) = LastikDashboardOver(OwnRows(u))

\* C10: an update, a delete or a notification request on a row by a user
\* who is neither superuser, nor Admin-role, nor its owner fails and leaves
\* the table unchanged.
C10_ForeignMutationRefused ==
    [][ \A u \in Users, pk \in 1..MaxRecords :
          ( /\ pk \in Pks
            /\ Ordinary(u)
            /\ records[pk].user # u
            /\ \/ \E post \in Posts : LastikUpdate(u, pk, post)
               \/ LastikDelete(u, pk)
               \/ WhatsappGonder(u, pk) )
          => (response' # "ok" /\ records' = records) ]_vars

\* C11: for a user who is superuser or Admin-role, every non-removed row,
\* whoever owns it (another user, nobody), is in the list of its status:
\* cancelled rows in the cancelled list, reviewed rows in the reviewed list,
\* rows of any other status in the active list, and each list holds only
\* non-removed rows of its statuses.
C11_AdminListsHoldEveryRow ==
    \A u \in Users : (is_superuser(u) \/ role(u) = "AD") =>
        /\ LastikEnvanteriListView(u) =
               {pk \in Pks : /\ ~records[pk].is_removed
                             /\ records[pk].durum \notin
                                    {"KONTROL_EDILDI", "IPTAL_EDILDI"}}
        /\ KontrolEdildiListView(u) =
               {pk \in Pks : /\ ~records[pk].is_removed
                             /\ records[pk].durum = "KONTROL_EDILDI"}
        /\ IptalEdilenLastiklerListView(u) =
               {pk \in Pks : /\ ~records[pk].is_removed
                             /\ records[pk].durum = "IPTAL_EDILDI"}

\* C11 witness: the Admin-role user who is no superuser is shown a cancelled
\* row owned by an ordinary user.
C11_Witness ==
    /\ Len(records) = 1
    /\ records[1].user = "op1"
    /\ records[1].durum = "IPTAL_EDILDI"
    /\ 1 \in IptalEdilenLastiklerListView("ada")

\* The sum of adet over the rows S of the table with group g and season s.
AdetOf(S, g, s) ==
    SumOf(records, {pk \in S : records[pk].grup = g /\ records[pk].mevsim = s},
          "adet")

\* The matrix [Passenger row, Commercial row], each [Summer, Winter,
\* AllSeason], of the sums of adet over the rows S.
SeasonGroupMatrix(S) ==
    << <<AdetOf(S, "BINEK", "YAZ"), AdetOf(S, "BINEK", "KIS"),
         AdetOf(S, "BINEK", "4MEVSIM")>>,
       <<AdetOf(S, "TICARI", "YAZ"), AdetOf(S, "TICARI", "KIS"),
         AdetOf(S, "TICARI", "4MEVSIM")>> >>

\* C12: the season x group matrix a view renders is, entry by entry, the
\* sum of adet over the non-removed Reviewed rows of that group and season
\* that pass the filters the view puts on the matrix (main dashboard: the
\* selected year and, for an ordinary user, the owner; reviewed list: none),
\* 0 where there is no such row, laid out [Passenger, Commercial] by
\* [Summer, Winter, AllSeason]; no other row contributes.
C12_MatrixSumsReviewedRows ==
    /\ (response.view = "dashboard" /\ response.status = 200) =>
          response.context.tire_sales_3d_data =
              SeasonGroupMatrix(
                {pk \in Pks :
                    /\ ~records[pk].is_removed
                    /\ records[pk].durum = "KONTROL_EDILDI"
                    /\ records[pk].olusturma_tarihi[1] =
                           response.context.selected_year
                    /\ Ordinary(response.user) =>
                           records[pk].user = response.user})
    /\ response.view = "kontrol_edildi" =>
          response.context.tire_sales_3d_data =
              SeasonGroupMatrix(
                {pk \in Pks : /\ ~records[pk].is_removed
                              /\ records[pk].durum = "KONTROL_EDILDI"})

\* C12 witness: a Passenger/Summer row of adet 3, a Commercial/Summer row of
\* adet 2 and an EnRoute row of one user render as [3,0,0], [2,0,0].
C12_Witness ==
    /\ response.view = "dashboard"
    /\ response.status = 200
    /\ response.user = "op1"
    /\ Len(records) = 3
    /\ \A pk \in Pks : records[pk].user = "op1" /\ ~records[pk].is_removed
    /\ \E pk \in Pks : records[pk].durum = "YOLDA"
    /\ response.context.tire_sales_3d_data = << <<3, 0, 0>>, <<2, 0, 0>> >>

\* The rollup (an entry for each bucket, with its brand label and its total)
\* has, for every row of S, one single bucket for the row's brand read
\* without letter case, whose total is the sum of adet over all rows of S of
\* that brand.
OneBucketPerBrand(labels, totals, S) ==
    \A pk \in S :
        LET B == {b \in DOMAIN labels :
                     Upper(labels[b]) = Upper(records[pk].marka)}
        IN  /\ Cardinality(B) = 1
            /\ \A b \in B :
                 totals[b] = SumOf(records,
                     {p \in S : Upper(records[p].marka) = Upper(records[pk].marka)},
                     "adet")

\* C13: in the brand rollup of the main dashboard, of the tire dashboard and
\* of the reviewed list, the rows of the rollup whose marka differ only in
\* letter case are in one bucket holding their total adet.
C13_BrandBucketsIgnoreCase ==
    /\ (response.view = "dashboard" /\ response.status = 200) =>
          LET r == response.context.lastik_marka_counts
          IN  OneBucketPerBrand([b \in DOMAIN r |-> r[b].marka],
                                [b \in DOMAIN r |-> r[b].total_adet],
                                lastik_envanteri(response.user,
                                                 response.context.selected_year))
    /\ response.view = "lastik_dashboard" =>
          LET r == response.context.marka_dagilimi
          IN  OneBucketPerBrand([b \in DOMAIN r |-> r[b].marka],
                                [b \in DOMAIN r |-> r[b].toplam_adet],
                                {pk \in Pks : ~records[pk].is_removed})
    /\ response.view = "kontrol_edildi" =>
          LET r == response.context.marka_dagilimi
          IN  OneBucketPerBrand([b \in DOMAIN r |-> r[b].marka_upper],
                                [b \in DOMAIN r |-> r[b].toplam_adet],
                                kontrol_tire_sales_data)

\* The rows that are soft-deleted or Cancelled.
Gone == {pk \in Pks : records[pk].is_removed \/ records[pk].durum = "IPTAL_EDILDI"}

\* The rows user u is entitled to: every row for a superuser or an Admin,
\* the own rows for an ordinary user.
Entitled(u) == {pk \in Pks : Ordinary(u) => records[pk].user = u}

\* C14: a soft-deleted or Cancelled row contributes to no scalar rollup.  The
\* figures of the tire dashboard (total, stock and sales quantity, EnRoute
\* and InProgress counts, total value, count by status) are those of the
\* table without such rows, and the record count, total value and status
\* distribution of the main dashboard are taken over rows that are neither
\* soft-deleted nor Cancelled.
C14_ScalarRollupsSkipGoneRows ==
    \A u \in Users :
        /\ lastik_dashboard(u) =
               LastikDashboardOver(
                   SelectSeq(records,
                       LAMBDA r : ~r.is_removed /\ r.durum # "IPTAL_EDILDI"))
        /\ dashboard(u).lastik_count = Cardinality(Entitled(u) \ Gone)
        /\ dashboard(u).lastik_total_value =
               SumOf(records, Entitled(u) \ Gone, "toplam_fiyat")
        /\ dashboard(u).lastik_durum = CountByDurum(records, Entitled(u) \ Gone)

\* C14 witness: a row with a quantity and a value was cancelled through the
\* cancel request.
C14_Witness ==
    /\ response = "ok"
    /\ Len(records) = 1
    /\ records[1].durum = "IPTAL_EDILDI"
    /\ records[1].iptal_sebebi # NoText
    /\ ~records[1].is_removed
    /\ records[1].adet > 0
    /\ records[1].toplam_fiyat > 0

\* C15: in the brand distribution of the tire dashboard every bucket counts
\* and sums only rows that are neither soft-deleted nor Cancelled, and there
\* is no bucket without such a row.
C15_BrandBucketsSkipGoneRows ==
    \A b \in DOMAIN marka_dagilimi :
        LET G == {pk \in Pks \ Gone : Upper(records[pk].marka) = b}
        IN  /\ G # {}
            /\ marka_dagilimi[b].count = Cardinality(G)
            /\ marka_dagilimi[b].toplam_adet = SumOf(records, G, "adet")

\* C16: no step removes a row of the LastikEnvanteri table: every row keeps
\* its primary key in the table, and a successful delete request changes
\* nothing but the is_removed flag of its row, which it sets.
C16_RowsAreNeverRemoved ==
    [][ /\ Len(records') >= Len(records)
        /\ \A pk \in Pks : pk \in 1..Len(records')
        /\ \A u \in Users, pk \in 1..MaxRecords :
             (response' = "ok" /\ Exists(pk) /\ LastikDelete(u, pk)) =>
                 records' = [records EXCEPT ![pk].is_removed = TRUE] ]_vars

\* C16 witness: the delete request went through on the one row created,
\* which is still in the table.
C16_Witness ==
    /\ response = "ok"
    /\ Len(records) = 1
    /\ records[1].is_removed

C18_MalformedDateIgnored ==
    \A u \in Users :
      \A S \in {LastikEnvanteriListView(u), KontrolEdildiListView(u)} :
        \A b \in DateQueries, e \in DateQueries :
          /\ strptime(b) = << >> =>
                custom_date_filter(S, b, e) = custom_date_filter(S, << >>, e)
          /\ strptime(e) = << >> =>
                custom_date_filter(S, b, e) = custom_date_filter(S, b, << >>)

\* C18 as stated: a start or end date of a list request that does not parse
\* as YYYY-MM-DD is ignored (the rows are those of the request without that
\* bound, and the request is answered), and a malformed year parameter of
\* the dashboard does not make the request fail either.
C18_MalformedFilterNeverFails ==
    [][ /\ \A u \in Users :
             \A b \in DateQueries, e \in DateQueries :
               /\ LastikListRequest(u, b, e) =>
                    /\ response'.status = 200
                    /\ strptime(b) = << >> =>
                         response'.context.object_list =
                           custom_date_filter(LastikEnvanteriListView(u),
                                              << >>, e)
                    /\ strptime(e) = << >> =>
                         response'.context.object_list =
                           custom_date_filter(LastikEnvanteriListView(u),
                                              b, << >>)
               /\ KontrolListRequest(u, b, e) =>
                    /\ response'.status = 200
                    /\ strptime(b) = << >> =>
                         response'.context.object_list =
                           custom_date_filter(KontrolEdildiListView(u),
                                              << >>, e)
                    /\ strptime(e) = << >> =>
                         response'.context.object_list =
                           custom_date_filter(KontrolEdildiListView(u),
                                              b, << >>)
        /\ \A u \in Users, q \in YearQueries :
             DashboardRequest(u, q) => response'.status = 200
      ]_vars

\* A dated bound does cut the list: a request with a start date is answered
\* with fewer rows than the user's list holds.
C18_DateBoundCuts ==
    /\ response.view = "lastik_list"
    /\ response.user = "op1"
    /\ response.context.object_list # LastikEnvanteriListView("op1")

\* C19 as stated: what a superuser's request does to an Item or a Delivery,
\* the same request of an Admin-role user who is not a superuser does too:
\* updating an Item, deleting an Item, deleting a Delivery.
C19_AdminActsAsSuperuser ==
    [][ \A u \in Users :
          (role(u) = "AD" /\ ~is_superuser(u)) =>
            \A pk \in 1..MaxRows :
              /\ \A post \in StorePosts :
                   (ItemExists(pk) /\ ProductUpdate(u, pk, post))
                      => ProductUpdate("root", pk, post)
              /\ (ItemExists(pk) /\ ProductDelete(u, pk))
                      => ProductDelete("root", pk)
              /\ (DeliveryExists(pk) /\ DeliveryDelete(u, pk))
                      => DeliveryDelete("root", pk) ]_vars

\* C20: a create form that succeeds (InventoryRecord, Item, Category) adds
\* one row whose owner is the user who made the request, whatever user the
\* request body names.
C20_CreatedRowOwnedByRequester ==
    [][ /\ Len(records') > Len(records) =>
             \A u \in Users :
               LastikCreate(u, SamplePost) => records'[Len(records')].user = u
        /\ Len(categories') > Len(categories) =>
             \A u \in Users, post \in StorePosts :
               CategoryCreate(u, post) =>
                  categories'[Len(categories')].user = u
        /\ Len(items') > Len(items) =>
             \A u \in Users, post \in StorePosts :
               ProductCreate(u, post) => items'[Len(items')].user = u ]_vars

\* C20 witness: user ada, whom no request body names, has created a
\* Category, an Item and an InventoryRecord, and owns all three.
C20_Witness ==
    /\ Len(categories) = 1 /\ categories[1].user = "ada"
    /\ Len(items) = 1 /\ items[1].user = "ada"
    /\ Len(records) = 1 /\ records[1].user = "ada"
    /\ \A post \in StorePosts : post.user # "ada"
    /\ SamplePost.user # "ada"

\* C21 as stated: a create or an update through the form that passes
\* validation persists the row, with mevsim NULL when the submitted grup is
\* AKU or JANT and with the submitted mevsim otherwise.
C21_BatteryWheelRowsHaveNoSeason ==
    [][ \A post \in Posts :
          LET mevsim == IF post.grup \in {"AKU", "JANT"} THEN Null
                        ELSE post.mevsim
          IN  \A u \in Users :
                /\ (FormIsValid(post, FormFields) /\ LastikCreate(u, post)) =>
                      /\ Len(records') = Len(records) + 1
                      /\ records'[Len(records')].mevsim = mevsim
                /\ \A pk \in 1..MaxRecords :
                     ( /\ Exists(pk)
                       /\ FormIsValid(post, UpdateFormFields)
                       /\ LastikUpdate(u, pk, post) ) =>
                          /\ response' = "ok"
                          /\ records'[pk].mevsim = mevsim ]_vars

\* C22: a cancel by a permitted user with an accepted reason succeeds
\* whatever durum the row has, a cancelled row included: the row ends with
\* durum IPTAL_EDILDI and with the new (stripped) reason in place of any
\* earlier one.
C22_CancelFromEveryStatus ==
    [][ \A pk \in 1..MaxRecords :
          Exists(pk) =>
            \A reason \in Reasons :
              ReasonAccepted(Strip(reason)) =>
                \A u \in Users :
                  (CancelPermitted(u, records[pk])
                     /\ LastikCancel(u, pk, "POST", reason)) =>
                       /\ response' = "ok"
                       /\ records'[pk].durum = "IPTAL_EDILDI"
                       /\ records'[pk].iptal_sebebi = Text(Strip(reason)) ]_vars

\* C22 witness: a row written after its creation (it is marked notified,
\* which no create does) is cancelled, with a reason the request carried.
C22_Witness ==
    /\ response = "ok"
    /\ Len(records) = 1
    /\ records[1].durum = "IPTAL_EDILDI"
    /\ records[1].iptal_sebebi = Text(<<"a", " ", "c">>)
    /\ records[1].sms_gonderildi

\* C23: the update form takes a row from any durum of the choice set to any
\* other in one request; no order of the values is enforced.
C23_UpdateSetsAnyDurum ==
    [][ \A pk \in 1..MaxRecords :
          Exists(pk) =>
            \A post \in Posts :
              FormIsValid(post, UpdateFormFields) =>
                \A u \in Users :
                  LastikUpdate(u, pk, post) =>
                     \/ response' = "error" /\ post.grup \in {"AKU", "JANT"}
                     \/ response' = "ok" /\ records'[pk].durum = post.durum
      ]_vars

\* C23 witness: a row written after its creation (it is marked notified,
\* which no create does) stands at YOLDA, the first value of the order, and
\* the update requests of the model submit every durum of the choice set.
C23_Witness ==
    /\ response = "ok"
    /\ Len(records) = 1
    /\ records[1].durum = "YOLDA"
    /\ records[1].sms_gonderildi
    /\ \A d \in DURUM_CHOICES : \E post \in Posts :
          post.durum = d /\ FormIsValid(post, UpdateFormFields)

\* toplam_fiyat / birim_fiyat of a row lies halfway between two integers.
Halfway(row) ==
    /\ row.toplam_fiyat # 0
    /\ row.birim_fiyat > 0
    /\ 2 * (row.toplam_fiyat % row.birim_fiyat) = row.birim_fiyat

\* C24: a stored row whose toplam_fiyat / birim_fiyat lies halfway between
\* two integers has the even one of the two as adet; total 5 with unit 2
\* gives 2, total 7 with unit 2 gives 4.
C24_TiesRoundToEven ==
    \A pk \in Pks :
       /\ Halfway(records[pk]) =>
            /\ records[pk].adet % 2 = 0
            /\ Abs(2 * records[pk].adet * records[pk].birim_fiyat
                     - 2 * records[pk].toplam_fiyat) = records[pk].birim_fiyat
       /\ (records[pk].toplam_fiyat = 5 /\ records[pk].birim_fiyat = 2)
             => records[pk].adet = 2
       /\ (records[pk].toplam_fiyat = 7 /\ records[pk].birim_fiyat = 2)
             => records[pk].adet = 4

\* C24 witness: a row with total 7 and unit 2 has been saved from an
\* instance that carried another adet.
C24_Witness ==
    /\ Len(records) = 1
    /\ records[1].toplam_fiyat = 7
    /\ records[1].birim_fiyat = 2
    /\ instance.toplam_fiyat = 7
    /\ instance.adet # records[1].adet

\* C25: a save recomputes adet exactly when toplam_fiyat is not 0 and
\* birim_fiyat is positive, to an integer nearest the quotient; with
\* toplam_fiyat 0, or birim_fiyat 0 or negative, the adet of the instance is
\* stored as it came.
C25_AdetKeptUnlessPriced ==
    [][ ModelSave =>
          /\ response' = "ok"
          /\ Len(records') = 1
          /\ IF instance.toplam_fiyat # 0 /\ instance.birim_fiyat > 0
             THEN Abs(2 * records'[1].adet * instance.birim_fiyat
                        - 2 * instance.toplam_fiyat) <= instance.birim_fiyat
             ELSE records'[1].adet = instance.adet ]_vars

\* C25 witness: a row saved with a total of 0 and a positive unit price
\* holds the adet of the instance.
C25_Witness ==
    /\ Len(records) = 1
    /\ records[1].toplam_fiyat = 0
    /\ records[1].birim_fiyat = 2
    /\ records[1].adet = 2
    /\ instance.adet = 2

\* C26: every stored row with toplam_fiyat not 0 and birim_fiyat positive
\* holds as adet the integer nearest toplam_fiyat / birim_fiyat, the even
\* one on a tie, whichever request wrote the row last.
C26_StoredAdetIsQuotient ==
    \A pk \in Pks :
       (records[pk].toplam_fiyat # 0 /\ records[pk].birim_fiyat > 0) =>
          LET gap == Abs(2 * records[pk].adet * records[pk].birim_fiyat
                           - 2 * records[pk].toplam_fiyat)
          IN  \/ gap < records[pk].birim_fiyat
              \/ gap = records[pk].birim_fiyat /\ records[pk].adet % 2 = 0

\* C26 witness: a row the admin form priced (its total is adet times the
\* unit price, where the forms submit a total of 5) has since been
\* cancelled and marked as notified.
C26_Witness ==
    /\ Len(records) = 1
    /\ records[1].birim_fiyat = 2
    /\ records[1].toplam_fiyat = 14
    /\ records[1].adet = 7
    /\ records[1].durum = "IPTAL_EDILDI"
    /\ records[1].iptal_sebebi # NoText
    /\ records[1].sms_gonderildi

\* The three lists of an ordinary user u split the user's rows that are not
\* removed: cancelled rows, reviewed rows, and the rest.
ListsPartitionOwnRows(u) ==
    LET active    == LastikEnvanteriListView(u)
        reviewed  == KontrolEdildiListView(u)
        cancelled == IptalEdilenLastiklerListView(u)
    IN  /\ active \cap reviewed = {}
        /\ active \cap cancelled = {}
        /\ reviewed \cap cancelled = {}
        /\ active \cup reviewed \cup cancelled =
              {pk \in Pks : records[pk].user = u /\ ~records[pk].is_removed}
        /\ \A pk \in active \cup reviewed \cup cancelled :
              /\ pk \in cancelled <=> records[pk].durum = "IPTAL_EDILDI"
              /\ pk \in reviewed <=> records[pk].durum = "KONTROL_EDILDI"
              /\ pk \in active <=>
                    records[pk].durum \notin {"IPTAL_EDILDI", "KONTROL_EDILDI"}

\* C27: for a user who is neither superuser nor Admin-role the active, the
\* reviewed and the cancelled list are pairwise disjoint, together hold
\* exactly the user's rows that are not removed, each row in the list its
\* durum names; and a cancel that succeeds on a row of the user leaves the
\* row in the cancelled list and in no other.
C27_ListsPartitionAndCancelMoves ==
    [][ \A u \in Users : Ordinary(u) =>
          /\ ListsPartitionOwnRows(u)
          /\ ListsPartitionOwnRows(u)'
          /\ response' = "ok" =>
               \A pk \in 1..MaxRecords :
                 (Exists(pk) /\ records[pk].user = u) =>
                   \A actor \in Users, reason \in Reasons :
                     LastikCancel(actor, pk, "POST", reason) =>
                       /\ pk \in IptalEdilenLastiklerListView(u)'
                       /\ pk \notin LastikEnvanteriListView(u)'
                       /\ pk \notin KontrolEdildiListView(u)' ]_vars

\* C27 witness: a row of the ordinary user op1 stands in op1's cancelled
\* list after a cancel, and in neither of the other two lists.
C27_Witness ==
    /\ response = "ok"
    /\ Len(records) = 1
    /\ records[1].user = "op1"
    /\ records[1].iptal_sebebi # NoText
    /\ IptalEdilenLastiklerListView("op1") = {1}
    /\ LastikEnvanteriListView("op1") = {}
    /\ KontrolEdildiListView("op1") = {}

\* C28 as stated: when two saves of Purchases of the same Item have both
\* finished, in whatever order their statements ran, the Item's quantity is
\* what it was at first (0) plus the quantities of both Purchases.
C28_NoIncrementLost ==
    (\A w \in Workers : instance[w].pc = "done") =>
        items[1].quantity = SumOf(purchases, 1..Len(purchases), "quantity")

\* C29 as stated: the save of a notification request changes no column of
\* the row but sms_gonderildi, also when a cancel of the same row is in
\* flight; so once both requests are served and the cancel has succeeded,
\* the row has durum IPTAL_EDILDI and the reason of the cancel.
C29_NotificationKeepsCancel ==
    [][ /\ \A w \in Workers :
             WhatsappSave(w) =>
                records'[instance[w].pk] =
                   [records[instance[w].pk] EXCEPT !.sms_gonderildi = TRUE]
        /\ ( /\ \A w \in Workers : instance'[w].pc = "done"
             /\ instance'["w2"].result = "ok" ) =>
               /\ records'[1].durum = "IPTAL_EDILDI"
               /\ records'[1].iptal_sebebi =
                     Text(Strip(instance'["w2"].reason)) ]_vars

\* C30: the owner of a stored row never changes: an update through the
\* form, a cancel and a notification request, by the owner, by another
\* ordinary user or by an admin, leave the row's user as it was, and so does
\* every other request on the row.
C30_OwnerNeverChanges ==
    [][ \A pk \in Pks :
          /\ pk \in 1..Len(records')
          /\ records'[pk].user = records[pk].user ]_vars

\* C30 witness: a row of the ordinary user ex1 has been written by the
\* update form (the only request that sets KONTROL_EDILDI and keeps the
\* total of 5 the forms submit), and ex1 still owns it.
C30_Witness ==
    /\ response = "ok"
    /\ Len(records) = 1
    /\ records[1].user = "ex1"
    /\ records[1].durum = "KONTROL_EDILDI"
    /\ records[1].sms_gonderildi
    /\ records[1].toplam_fiyat = 5

=============================================================================
